---- MODULE Spec2Model ----
(***************************************************************************)
(* ActiveWidgetStore (src/stores/ActiveWidgetStore.js): the singleton that *)
(* records the always-on-screen widget, the negotiated capabilities, the   *)
(* WidgetMessaging instance and the room of every active widget, and that  *)
(* forwards room-state events and theme changes to the widgets.            *)
(*                                                                         *)
(* Every method runs to completion on the JS event loop, so every method  *)
(* is one action.  What a method does on the way (emit('update'), sends on *)
(* a WidgetMessaging, WidgetMessaging.stop(), console.error, writes of the *)
(* persistent id) is recorded, in order, in `trace`; an exception that     *)
(* leaves the method is recorded in `thrown`.                              *)
(***************************************************************************)
EXTENDS Integers, Sequences, FiniteSets, TLC

\* ---------------------------------------------------------------- bounds
\* Number of start() calls in one behaviour (dis.register is never undone).
MaxStarts == 2

\* ------------------------------------------------------------ value sets
Ids == {"w1", "w2"}
Rooms == {"room1", "room2"}
\* the rooms that host the widgets
WidgetRooms == {"room1"}
\* the WidgetMessaging objects the callers create
Channels == {"wm1", "wm2"}
Themes == {"light", "dark"}

WidgetsEventType == "im.vector.modular.widgets"
MessageEventType == "m.room.message"
ThemeUpdateCap == "theme_update"
EventTypes == {MessageEventType, WidgetsEventType}
\* capability arrays handed to setWidgetCapabilities
CapLists ==
    { <<MessageEventType>>,
      <<WidgetsEventType, ThemeUpdateCap>> }
\* room-state events: type, room and state key (a widget definition is keyed
\* by the widget id, the other events by the empty string)
Events ==
    {[type |-> WidgetsEventType, roomId |-> r, stateKey |-> k] : r \in Rooms, k \in Ids}
        \cup {[type |-> MessageEventType, roomId |-> r, stateKey |-> ""] : r \in Rooms}
\* dispatcher payloads
Payloads == {[action |-> "set_theme", value |-> t] : t \in Themes}
              \cup {[action |-> "view_room", value |-> "light"]}

\* JS values
Null == "null"
Undefined == "undefined"
JsTrue == "true"
JsFalse == "false"
NoError == "none"
TypeError == "TypeError"
StopError == "Error"

\* JS truthiness of a value read from one of the maps
Truthy(v) == v \notin {Undefined, Null, JsFalse, ""}

VARIABLES
    persistentWidgetId,         \* this._persistentWidgetId
    capsByWidgetId,             \* this._capsByWidgetId, in insertion order
    widgetMessagingByWidgetId,  \* this._widgetMessagingByWidgetId
    roomIdByWidgetId,           \* this._roomIdByWidgetId
    stopped,                    \* WidgetMessaging objects stop() was called on
    roomStateListeners,         \* registrations of onRoomStateEvents on the client
    roomTimelineListeners,      \* registrations of onRoomTimelineEvents on the client
    dispatcherRegs,             \* registrations of onAction on the dispatcher
    running,                    \* the last of start() and stop() was a start()
    lastOp,                     \* the last operation, its arguments, the id it found persistent
    trace,                      \* what the last operation did, in order
    thrown                      \* the exception the last operation let escape

vars == <<persistentWidgetId, capsByWidgetId, widgetMessagingByWidgetId,
          roomIdByWidgetId, stopped, roomStateListeners,
          roomTimelineListeners, dispatcherRegs, running, lastOp, trace, thrown>>

\* ------------------------------------------------------- JS object helpers
\* A plain object whose key order matters (for..in) is a sequence of
\* <<key, value>> pairs in insertion order.
ObjHas(o, k) == \E i \in DOMAIN o : o[i][1] = k
ObjGet(o, k) ==
    IF ObjHas(o, k) THEN o[CHOOSE i \in DOMAIN o : o[i][1] = k][2] ELSE Undefined
ObjSet(o, k, v) ==
    IF ObjHas(o, k)
    THEN [i \in DOMAIN o |-> IF o[i][1] = k THEN <<k, v>> ELSE o[i]]
    ELSE Append(o, <<k, v>>)
ObjDelete(o, k) == SelectSeq(o, LAMBDA p : p[1] # k)

\* A plain object that is only indexed is a function on its present keys.
MapGet(m, k) == IF k \in DOMAIN m THEN m[k] ELSE Undefined
MapSet(m, k, v) == [x \in DOMAIN m \cup {k} |-> IF x = k THEN v ELSE m[x]]
MapDelete(m, k) == [x \in DOMAIN m \ {k} |-> m[x]]
EmptyMap == [x \in {} |-> Undefined]

\* Array.prototype.includes
Includes(arr, x) == \E i \in DOMAIN arr : arr[i] = x

\* ------------------------------------------------------------- the store
\* The store at the start of an operation.
Store ==
    [ persistentWidgetId |-> persistentWidgetId,
      capsByWidgetId |-> capsByWidgetId,
      widgetMessagingByWidgetId |-> widgetMessagingByWidgetId,
      roomIdByWidgetId |-> roomIdByWidgetId,
      stopped |-> stopped,
      trace |-> <<>>,
      threw |-> NoError ]

Did(st, what) == [st EXCEPT !.trace = Append(@, what)]

emit(st) == Did(st, <<"emit", "update">>)

\* Variant: a holder is never replaced (the second branch tests for null).
setWidgetPersistence_NoReplace(st, widgetId, val) ==
    LET s1 == IF st.persistentWidgetId = widgetId /\ ~val
              THEN Did([st EXCEPT !.persistentWidgetId = Null], <<"persistent", Null>>)
              ELSE IF st.persistentWidgetId = Null /\ val
              THEN Did([st EXCEPT !.persistentWidgetId = widgetId], <<"persistent", widgetId>>)
              ELSE st
    IN emit(s1)

\* Variant: clearing does not test who the holder is.
setWidgetPersistence_ClearsAny(st, widgetId, val) ==
    LET s1 == IF ~val
              THEN Did([st EXCEPT !.persistentWidgetId = Null], <<"persistent", Null>>)
              ELSE IF st.persistentWidgetId # widgetId /\ val
              THEN Did([st EXCEPT !.persistentWidgetId = widgetId], <<"persistent", widgetId>>)
              ELSE st
    IN emit(s1)

\* Variant: emit('update') sits inside the two branches.
setWidgetPersistence_EmitOnChange(st, widgetId, val) ==
    IF st.persistentWidgetId = widgetId /\ ~val
    THEN emit(Did([st EXCEPT !.persistentWidgetId = Null], <<"persistent", Null>>))
    ELSE IF st.persistentWidgetId # widgetId /\ val
    THEN emit(Did([st EXCEPT !.persistentWidgetId = widgetId], <<"persistent", widgetId>>))
    ELSE st

\* Variant: replacing the holder drops the old holder's capabilities.
setWidgetPersistence_DropsOldHolder(st, widgetId, val) ==
    LET s1 == IF st.persistentWidgetId = widgetId /\ ~val
              THEN Did([st EXCEPT !.persistentWidgetId = Null], <<"persistent", Null>>)
              ELSE IF st.persistentWidgetId # widgetId /\ val
              THEN Did([st EXCEPT !.persistentWidgetId = widgetId,
                                  !.capsByWidgetId = ObjDelete(@, st.persistentWidgetId)],
                       <<"persistent", widgetId>>)
              ELSE st
    IN emit(s1)

setWidgetPersistence(st, widgetId, val) ==
    LET s1 == IF st.persistentWidgetId = widgetId /\ ~val
              THEN Did([st EXCEPT !.persistentWidgetId = Null], <<"persistent", Null>>)
              ELSE IF st.persistentWidgetId # widgetId /\ val
              THEN Did([st EXCEPT !.persistentWidgetId = widgetId], <<"persistent", widgetId>>)
              ELSE st
    IN emit(s1)

getWidgetPersistence(widgetId) == persistentWidgetId = widgetId

getPersistentWidgetId == persistentWidgetId

setWidgetCapabilities(st, widgetId, caps) ==
    emit([st EXCEPT !.capsByWidgetId = ObjSet(@, widgetId, caps)])

widgetHasCapability(widgetId, cap) ==
    IF ~ObjHas(capsByWidgetId, widgetId) THEN Undefined
    ELSE IF Includes(ObjGet(capsByWidgetId, widgetId), cap) THEN JsTrue ELSE JsFalse

\* Variant: the delete is not followed by emit('update').
delWidgetCapabilities_NoEmit(st, widgetId) ==
    Did([st EXCEPT !.capsByWidgetId = ObjDelete(@, widgetId)],
        <<"delete caps", widgetId, ObjHas(st.capsByWidgetId, widgetId)>>)

delWidgetCapabilities(st, widgetId) ==
    emit(Did([st EXCEPT !.capsByWidgetId = ObjDelete(@, widgetId)],
             <<"delete caps", widgetId, ObjHas(st.capsByWidgetId, widgetId)>>))

setWidgetMessaging(st, widgetId, wm) ==
    emit([st EXCEPT !.widgetMessagingByWidgetId = MapSet(@, widgetId, wm)])

getWidgetMessaging(widgetId) == MapGet(widgetMessagingByWidgetId, widgetId)

\* Variant: no try/catch around WidgetMessaging.stop().
delWidgetMessaging_NoCatch(st, widgetId, stopThrows) ==
    IF Truthy(MapGet(st.widgetMessagingByWidgetId, widgetId))
    THEN LET wm == st.widgetMessagingByWidgetId[widgetId]
             s1 == Did([st EXCEPT !.stopped = @ \cup {wm}],
                       <<"stop", widgetId, wm, stopThrows>>)
             s3 == Did([s1 EXCEPT !.widgetMessagingByWidgetId = MapDelete(@, widgetId)],
                       <<"delete messaging", widgetId, wm>>)
         IN IF stopThrows THEN [s1 EXCEPT !.threw = StopError] ELSE emit(s3)
    ELSE st

\* stopThrows: whether WidgetMessaging.stop() throws in this call
delWidgetMessaging(st, widgetId, stopThrows) ==
    IF Truthy(MapGet(st.widgetMessagingByWidgetId, widgetId))
    THEN LET wm == st.widgetMessagingByWidgetId[widgetId]
             s1 == Did([st EXCEPT !.stopped = @ \cup {wm}],
                       <<"stop", widgetId, wm, stopThrows>>)
             s2 == IF stopThrows THEN Did(s1, <<"console.error", widgetId>>) ELSE s1
             s3 == Did([s2 EXCEPT !.widgetMessagingByWidgetId = MapDelete(@, widgetId)],
                       <<"delete messaging", widgetId, wm>>)
         IN emit(s3)
    ELSE st

getRoomId(widgetId) == MapGet(roomIdByWidgetId, widgetId)

setRoomId(st, widgetId, roomId) ==
    emit([st EXCEPT !.roomIdByWidgetId = MapSet(@, widgetId, roomId)])

delRoomId(st, widgetId) ==
    emit(Did([st EXCEPT !.roomIdByWidgetId = MapDelete(@, widgetId)],
             <<"delete roomId", widgetId, widgetId \in DOMAIN st.roomIdByWidgetId>>))

\* Variant: the id is read again from this._persistentWidgetId at every step.
destroyPersistentWidget_Reread(st, stopThrows) ==
    LET s1 == setWidgetPersistence(st, st.persistentWidgetId, FALSE)
        s2 == delWidgetMessaging(s1, s1.persistentWidgetId, stopThrows)
        s3 == delWidgetCapabilities(s2, s2.persistentWidgetId)
    IN delRoomId(s3, s3.persistentWidgetId)

destroyPersistentWidget(st, stopThrows) ==
    LET toDeleteId == st.persistentWidgetId
        s1 == setWidgetPersistence(st, toDeleteId, FALSE)
        s2 == delWidgetMessaging(s1, toDeleteId, stopThrows)
        s3 == delWidgetCapabilities(s2, toDeleteId)
    IN delRoomId(s3, toDeleteId)

\* Variant: the loop does not test caps.includes(eventType).
RECURSIVE sendEventsFrom_NoCapCheck(_, _, _)
sendEventsFrom_NoCapCheck(st, ev, i) ==
    IF i > Len(st.capsByWidgetId) THEN st
    ELSE LET widgetId == st.capsByWidgetId[i][1]
             roomId == ev.roomId
             scope == MapGet(st.roomIdByWidgetId, widgetId)
             wm == MapGet(st.widgetMessagingByWidgetId, widgetId)
         IN IF ~Truthy(scope) \/ roomId = scope
            THEN IF wm = Undefined
                 THEN [st EXCEPT !.threw = TypeError]
                 ELSE sendEventsFrom_NoCapCheck(
                          Did(st, <<"sendEvent", widgetId, wm, ev.type, roomId>>), ev, i + 1)
            ELSE sendEventsFrom_NoCapCheck(st, ev, i + 1)

\* One iteration of the for..in loop of sendEventsToWidgets, from key i on.
\* Calling sendEvent on a missing WidgetMessaging is a TypeError that ends
\* the loop and leaves the method.
RECURSIVE sendEventsFrom(_, _, _)
sendEventsFrom(st, ev, i) ==
    IF i > Len(st.capsByWidgetId) THEN st
    ELSE LET widgetId == st.capsByWidgetId[i][1]
             caps == st.capsByWidgetId[i][2]
             roomId == ev.roomId
             scope == MapGet(st.roomIdByWidgetId, widgetId)
             wm == MapGet(st.widgetMessagingByWidgetId, widgetId)
         IN IF Includes(caps, ev.type) /\ (~Truthy(scope) \/ roomId = scope)
            THEN IF wm = Undefined
                 THEN [st EXCEPT !.threw = TypeError]
                 ELSE sendEventsFrom(
                          Did(st, <<"sendEvent", widgetId, wm, ev.type, roomId>>), ev, i + 1)
            ELSE sendEventsFrom(st, ev, i + 1)

sendEventsToWidgets(st, ev) == sendEventsFrom(st, ev, 1)

RECURSIVE sendThemeFrom(_, _, _)
sendThemeFrom(st, theme, i) ==
    IF i > Len(st.capsByWidgetId) THEN st
    ELSE LET widgetId == st.capsByWidgetId[i][1]
             caps == st.capsByWidgetId[i][2]
             wm == MapGet(st.widgetMessagingByWidgetId, widgetId)
         IN IF Includes(caps, ThemeUpdateCap)
            THEN IF wm = Undefined
                 THEN [st EXCEPT !.threw = TypeError]
                 ELSE sendThemeFrom(
                          Did(st, <<"sendThemeUpdate", widgetId, wm, theme>>), theme, i + 1)
            ELSE sendThemeFrom(st, theme, i + 1)

sendThemeToWidgets(st, theme) == sendThemeFrom(st, theme, 1)

\* Variant: stop() resets the persistent id with the maps.
stop_ClearsPersistent(st) ==
    Did([st EXCEPT !.capsByWidgetId = <<>>,
                   !.widgetMessagingByWidgetId = EmptyMap,
                   !.roomIdByWidgetId = EmptyMap,
                   !.persistentWidgetId = Null],
        <<"clear", {st.capsByWidgetId[i][1] : i \in DOMAIN st.capsByWidgetId}
                       \cup DOMAIN st.widgetMessagingByWidgetId
                       \cup DOMAIN st.roomIdByWidgetId>>)

\* The part of stop() that resets the maps; the trace names the ids it dropped.
stop(st) ==
    Did([st EXCEPT !.capsByWidgetId = <<>>,
                   !.widgetMessagingByWidgetId = EmptyMap,
                   !.roomIdByWidgetId = EmptyMap],
        <<"clear", {st.capsByWidgetId[i][1] : i \in DOMAIN st.capsByWidgetId}
                       \cup DOMAIN st.widgetMessagingByWidgetId
                       \cup DOMAIN st.roomIdByWidgetId>>)

\* Variant: the teardown runs before the forwarding.
onRoomStateEvents_TeardownFirst(st, ev, stopThrows) ==
    LET s1 == IF ev.type = WidgetsEventType /\ ev.stateKey = st.persistentWidgetId
              THEN destroyPersistentWidget(st, stopThrows)
              ELSE st
    IN sendEventsToWidgets(s1, ev)

\* Variant: every widget-definition event tears the persistent widget down.
onRoomStateEvents_NoKeyCheck(st, ev, stopThrows) ==
    LET s1 == sendEventsToWidgets(st, ev)
    IN IF s1.threw # NoError THEN s1
       ELSE IF ev.type # WidgetsEventType THEN s1
       ELSE destroyPersistentWidget(s1, stopThrows)

onRoomStateEvents(st, ev, stopThrows) ==
    LET s1 == sendEventsToWidgets(st, ev)
    IN IF s1.threw # NoError THEN s1
       ELSE IF ev.type # WidgetsEventType THEN s1
       ELSE IF ev.stateKey = s1.persistentWidgetId
            THEN destroyPersistentWidget(s1, stopThrows)
            ELSE s1

onRoomTimelineEvents(st, ev) == st

onAction(st, payload) ==
    IF payload.action = "set_theme" THEN sendThemeToWidgets(st, payload.value) ELSE st

\* EventEmitter.emit / the dispatcher: the handler runs once per registration,
\* and an exception in one run ends the delivery.
RECURSIVE deliverRoomState(_, _, _, _)
deliverRoomState(st, ev, stopThrows, n) ==
    IF n = 0 \/ st.threw # NoError THEN st
    ELSE deliverRoomState(onRoomStateEvents(st, ev, stopThrows), ev, stopThrows, n - 1)

RECURSIVE deliverAction(_, _, _)
deliverAction(st, payload, n) ==
    IF n = 0 \/ st.threw # NoError THEN st
    ELSE deliverAction(onAction(st, payload), payload, n - 1)

\* ---------------------------------------------------------------- actions
Op(name, args) == [op |-> name, params |-> args, prePersistent |-> persistentWidgetId]

\* The store after an operation that ended in st.
Commit(st, op) ==
    /\ persistentWidgetId' = st.persistentWidgetId
    /\ capsByWidgetId' = st.capsByWidgetId
    /\ widgetMessagingByWidgetId' = st.widgetMessagingByWidgetId
    /\ roomIdByWidgetId' = st.roomIdByWidgetId
    /\ stopped' = st.stopped
    /\ trace' = st.trace
    /\ thrown' = st.threw
    /\ lastOp' = op

\* What WidgetMessaging.stop() can do when the binding of widgetId is removed:
\* return or throw; it is not called when nothing is bound.
StopOutcomes(widgetId) ==
    IF MapGet(widgetMessagingByWidgetId, widgetId) # Undefined THEN BOOLEAN ELSE {FALSE}

Subscriptions == <<roomStateListeners, roomTimelineListeners, dispatcherRegs, running>>

Init ==
    /\ persistentWidgetId = Null
    /\ capsByWidgetId = <<>>
    /\ widgetMessagingByWidgetId = EmptyMap
    /\ roomIdByWidgetId = EmptyMap
    /\ stopped = {}
    /\ roomStateListeners = 0
    /\ roomTimelineListeners = 0
    /\ dispatcherRegs = 0
    /\ running = FALSE
    /\ lastOp = [op |-> "constructor", params |-> <<>>, prePersistent |-> Null]
    /\ trace = <<>>
    /\ thrown = NoError

SetWidgetPersistence ==
    \E widgetId \in Ids, val \in BOOLEAN :
        /\ Commit(setWidgetPersistence(Store, widgetId, val),
                  Op("setWidgetPersistence", <<widgetId, val>>))
        /\ UNCHANGED Subscriptions

SetWidgetCapabilities ==
    \E widgetId \in Ids, caps \in CapLists :
        /\ Commit(setWidgetCapabilities(Store, widgetId, caps),
                  Op("setWidgetCapabilities", <<widgetId, caps>>))
        /\ UNCHANGED Subscriptions

DelWidgetCapabilities ==
    \E widgetId \in Ids :
        /\ Commit(delWidgetCapabilities(Store, widgetId),
                  Op("delWidgetCapabilities", <<widgetId>>))
        /\ UNCHANGED Subscriptions

\* The caller binds a WidgetMessaging that is live and belongs to this widget.
SetWidgetMessaging ==
    \E widgetId \in Ids, wm \in Channels \ stopped :
        /\ \A other \in DOMAIN widgetMessagingByWidgetId \ {widgetId} :
               widgetMessagingByWidgetId[other] # wm
        /\ Commit(setWidgetMessaging(Store, widgetId, wm),
                  Op("setWidgetMessaging", <<widgetId, wm>>))
        /\ UNCHANGED Subscriptions

DelWidgetMessaging ==
    \E widgetId \in Ids : \E stopThrows \in StopOutcomes(widgetId) :
        /\ Commit(delWidgetMessaging(Store, widgetId, stopThrows),
                  Op("delWidgetMessaging", <<widgetId>>))
        /\ UNCHANGED Subscriptions

SetRoomId ==
    \E widgetId \in Ids, roomId \in WidgetRooms :
        /\ Commit(setRoomId(Store, widgetId, roomId),
                  Op("setRoomId", <<widgetId, roomId>>))
        /\ UNCHANGED Subscriptions

DelRoomId ==
    \E widgetId \in Ids :
        /\ Commit(delRoomId(Store, widgetId), Op("delRoomId", <<widgetId>>))
        /\ UNCHANGED Subscriptions

DestroyPersistentWidget ==
    \E stopThrows \in StopOutcomes(persistentWidgetId) :
        /\ Commit(destroyPersistentWidget(Store, stopThrows),
                  Op("destroyPersistentWidget", <<>>))
        /\ UNCHANGED Subscriptions

\* start().  hasClient: MatrixClientPeg.get() is non-null; it is null before
\* login and after logout, when nothing is registered, and .on() of null throws.
Start ==
    \E hasClient \in BOOLEAN :
        /\ dispatcherRegs < MaxStarts
        /\ hasClient \/ roomStateListeners = 0
        /\ IF hasClient
           THEN /\ roomStateListeners' = roomStateListeners + 1
                /\ roomTimelineListeners' = roomTimelineListeners + 1
                /\ dispatcherRegs' = dispatcherRegs + 1
                /\ running' = TRUE
                /\ Commit(Store, Op("start", <<hasClient>>))
           ELSE /\ UNCHANGED Subscriptions
                /\ Commit([Store EXCEPT !.threw = TypeError], Op("start", <<hasClient>>))

\* stop(): removeListener takes one registration of the handler off the client.
Stop ==
    \E hasClient \in BOOLEAN :
        /\ hasClient \/ roomStateListeners = 0
        /\ IF hasClient
           THEN /\ roomStateListeners' =
                       IF roomStateListeners > 0 THEN roomStateListeners - 1 ELSE 0
                /\ roomTimelineListeners' =
                       IF roomTimelineListeners > 0 THEN roomTimelineListeners - 1 ELSE 0
           ELSE UNCHANGED <<roomStateListeners, roomTimelineListeners>>
        /\ running' = FALSE
        /\ Commit(stop(Store), Op("stop", <<hasClient>>))
        /\ UNCHANGED dispatcherRegs

\* The client emits 'RoomState.events'.
RoomStateEvents ==
    \E ev \in Events : \E stopThrows \in StopOutcomes(persistentWidgetId) :
        /\ roomStateListeners > 0
        /\ Commit(deliverRoomState(Store, ev, stopThrows, roomStateListeners),
                  Op("RoomState.events", <<ev, roomStateListeners>>))
        /\ UNCHANGED Subscriptions

\* The client emits 'Room.timeline'.
RoomTimeline ==
    \E ev \in {e \in Events : e.type = MessageEventType} :
        /\ roomTimelineListeners > 0
        /\ Commit(onRoomTimelineEvents(Store, ev), Op("Room.timeline", <<>>))
        /\ UNCHANGED Subscriptions

\* dis.dispatch(payload)
Dispatch ==
    \E payload \in Payloads :
        /\ dispatcherRegs > 0
        /\ Commit(deliverAction(Store, payload, dispatcherRegs),
                  Op("dispatch", <<payload, dispatcherRegs>>))
        /\ UNCHANGED Subscriptions

Next ==
    \/ SetWidgetPersistence
    \/ SetWidgetCapabilities
    \/ DelWidgetCapabilities
    \/ SetWidgetMessaging
    \/ DelWidgetMessaging
    \/ SetRoomId
    \/ DelRoomId
    \/ DestroyPersistentWidget
    \/ Start
    \/ Stop
    \/ RoomStateEvents
    \/ RoomTimeline
    \/ Dispatch

Spec == Init /\ [][Next]_vars

\* ------------------------------------------------------------ properties
\* Reading the trace of the last operation.
Emits(tr) == Cardinality({i \in DOMAIN tr : tr[i][1] = "emit"})
Sends(tr, kind, widgetId) ==
    Cardinality({i \in DOMAIN tr : tr[i][1] = kind /\ tr[i][2] = widgetId})
PersistentWrites(tr) ==
    LET w == SelectSeq(tr, LAMBDA e : e[1] = "persistent")
    IN [i \in DOMAIN w |-> w[i][2]]
StopThrew(tr, widgetId) ==
    \E i \in DOMAIN tr : tr[i][1] = "stop" /\ tr[i][2] = widgetId /\ tr[i][4]
Logged(tr, widgetId) ==
    \E i \in DOMAIN tr : tr[i][1] = "console.error" /\ tr[i][2] = widgetId
Deleted(tr, kind, widgetId) ==
    \E i \in DOMAIN tr : tr[i][1] = kind /\ tr[i][2] = widgetId /\ tr[i][3] = TRUE
AllCaps == {MessageEventType, WidgetsEventType, ThemeUpdateCap}
\* a widget with none of its three facets
Untracked(widgetId) ==
    /\ \A cap \in AllCaps : ~Truthy(widgetHasCapability(widgetId, cap))
    /\ ~ObjHas(capsByWidgetId, widgetId)
    /\ getWidgetMessaging(widgetId) = Undefined
    /\ getRoomId(widgetId) = Undefined
\* the step changes the persistent id or one of the three maps
Mutates ==
    \/ persistentWidgetId' # persistentWidgetId
    \/ capsByWidgetId' # capsByWidgetId
    \/ widgetMessagingByWidgetId' # widgetMessagingByWidgetId
    \/ roomIdByWidgetId' # roomIdByWidgetId

\* C1: at most one widget id is persistent in every reachable state, and
\* setWidgetPersistence(B, true) called while A # B is persistent ends with B
\* persistent and A not, by a single write of the pointer.
C1_HolderReplaced ==
    /\ Cardinality({w \in Ids : getWidgetPersistence(w)}) <= 1
    /\ \A A \in Ids, B \in Ids :
           ( /\ A # B
             /\ lastOp.op = "setWidgetPersistence"
             /\ lastOp.params = <<B, TRUE>>
             /\ lastOp.prePersistent = A )
           => /\ getPersistentWidgetId = B
              /\ getWidgetPersistence(B)
              /\ ~getWidgetPersistence(A)
              /\ PersistentWrites(trace) = <<B>>

C1_Witness ==
    \E A \in Ids, B \in Ids :
        /\ A # B
        /\ lastOp.op = "setWidgetPersistence"
        /\ lastOp.params = <<B, TRUE>>
        /\ lastOp.prePersistent = A
        /\ getPersistentWidgetId = B

\* C2: setWidgetPersistence(X, false) called while X is not the persistent
\* widget leaves the persistent id as it was, null or another widget.
C2_ClearNonHolder ==
    \A X \in Ids :
        ( /\ lastOp.op = "setWidgetPersistence"
          /\ lastOp.params = <<X, FALSE>>
          /\ lastOp.prePersistent # X )
        => getPersistentWidgetId = lastOp.prePersistent

C2_Witness ==
    \E X \in Ids :
        /\ lastOp.op = "setWidgetPersistence"
        /\ lastOp.params = <<X, FALSE>>
        /\ lastOp.prePersistent \in Ids \ {X}
        /\ getPersistentWidgetId = lastOp.prePersistent

\* C3: when one run of the room-state handler forwards an event of type t
\* from room r', a widget with a bound channel, t among its capabilities and
\* room scope r gets exactly one sendEvent if r' = r and none if r' # r.
C3_ScopedForwarding ==
    [][ \A w \in Ids :
          LET ev == lastOp'.params[1]
              scope == getRoomId(w)
          IN ( /\ lastOp'.op = "RoomState.events"
               /\ lastOp'.params[2] = 1
               /\ getWidgetMessaging(w) # Undefined
               /\ Truthy(widgetHasCapability(w, ev.type))
               /\ scope # Undefined )
             => Sends(trace', "sendEvent", w) = (IF ev.roomId = scope THEN 1 ELSE 0)
      ]_vars

\* C4: when one run of the room-state handler forwards an event of type t, a
\* widget with a bound channel, t among its capabilities and no room scope
\* gets exactly one sendEvent, whatever the room of the event.
C4_UnscopedForwarding ==
    [][ \A w \in Ids :
          LET ev == lastOp'.params[1]
          IN ( /\ lastOp'.op = "RoomState.events"
               /\ lastOp'.params[2] = 1
               /\ getWidgetMessaging(w) # Undefined
               /\ Truthy(widgetHasCapability(w, ev.type))
               /\ getRoomId(w) = Undefined )
             => Sends(trace', "sendEvent", w) = 1
      ]_vars

\* C5: destroyPersistentWidget() called while w is persistent returns
\* normally with no persistent widget and with w's capabilities, channel and
\* room absent, also when WidgetMessaging.stop() throws; everything it stops
\* or deletes belongs to w.
C5_DestroyPersistent ==
    \A w \in Ids :
        (lastOp.op = "destroyPersistentWidget" /\ lastOp.prePersistent = w)
        => /\ getPersistentWidgetId = Null
           /\ Untracked(w)
           /\ thrown = NoError
           /\ \A i \in DOMAIN trace :
                  trace[i][1] \in {"stop", "delete messaging", "delete caps", "delete roomId"}
                  => trace[i][2] = w

C5_Witness ==
    \E w \in Ids :
        /\ lastOp.op = "destroyPersistentWidget"
        /\ lastOp.prePersistent = w
        /\ StopThrew(trace, w)
        /\ Deleted(trace, "delete caps", w)
        /\ Deleted(trace, "delete roomId", w)
        /\ getPersistentWidgetId = Null

\* C6: delWidgetMessaging(id) whose WidgetMessaging.stop() throws returns
\* normally: the failure is logged, the binding is gone and one update is
\* emitted.
C6_StopFailureSwallowed ==
    \A id \in Ids :
        ( /\ lastOp.op = "delWidgetMessaging"
          /\ lastOp.params = <<id>>
          /\ StopThrew(trace, id) )
        => /\ getWidgetMessaging(id) = Undefined
           /\ thrown = NoError
           /\ Logged(trace, id)
           /\ Emits(trace) = 1

C6_Witness ==
    \E id \in Ids :
        /\ lastOp.op = "delWidgetMessaging"
        /\ lastOp.params = <<id>>
        /\ StopThrew(trace, id)
        /\ getWidgetMessaging(id) = Undefined

\* C7: after the client delivered a widget-definition event whose state key
\* is the persistent widget id, no widget is persistent and that widget has
\* no channel, capabilities or room.
C7_TeardownOnWidgetEvent ==
    \A w \in Ids :
        ( /\ lastOp.op = "RoomState.events"
          /\ lastOp.params[1].type = WidgetsEventType
          /\ lastOp.params[1].stateKey = w
          /\ lastOp.prePersistent = w )
        => (getPersistentWidgetId = Null /\ Untracked(w))

\* C8: stop() leaves no widget with a capability, a channel or a room, and
\* leaves the persistent id as it was.
C8_StopKeepsPersistent ==
    lastOp.op = "stop"
    => /\ \A w \in Ids : Untracked(w)
       /\ getPersistentWidgetId = lastOp.prePersistent

C8_Witness ==
    /\ lastOp.op = "stop"
    /\ trace[1][1] = "clear"
    /\ trace[1][2] # {}
    /\ getPersistentWidgetId \in Ids

\* C9: every operation that changes the persistent id or one of the three
\* maps emits at least one update.
C9_EveryMutationEmits ==
    [][ Mutates => Emits(trace') >= 1 ]_vars

\* C9 (amended): every operation other than stop() that changes the
\* persistent id or one of the three maps emits at least one update; stop()
\* emits none.
C9_EveryMutationButStopEmits ==
    [][ /\ (Mutates /\ lastOp'.op # "stop") => Emits(trace') >= 1
        /\ lastOp'.op = "stop" => Emits(trace') = 0
      ]_vars

C9_Witness ==
    /\ lastOp.op = "RoomState.events"
    /\ PersistentWrites(trace) = <<Null>>
    /\ \E w \in Ids : Deleted(trace, "delete caps", w)
    /\ Emits(trace) >= 1

\* C10: every call of setWidgetPersistence, setWidgetCapabilities,
\* delWidgetCapabilities, setWidgetMessaging, setRoomId and delRoomId emits
\* exactly one update, whether or not it changes anything; delWidgetMessaging
\* emits exactly one when a channel was bound and none otherwise.
C10_EmitCounts ==
    [][ /\ lastOp'.op \in {"setWidgetPersistence", "setWidgetCapabilities",
                            "delWidgetCapabilities", "setWidgetMessaging",
                            "setRoomId", "delRoomId"}
           => Emits(trace') = 1
        /\ lastOp'.op = "delWidgetMessaging"
           => Emits(trace') =
                  (IF getWidgetMessaging(lastOp'.params[1]) # Undefined THEN 1 ELSE 0)
      ]_vars

C10_Witness ==
    \E w \in Ids :
        /\ lastOp.op = "delWidgetCapabilities"
        /\ trace = << <<"delete caps", w, FALSE>>, <<"emit", "update">> >>

\* the send of kind `kind` to widgetId in the trace, as <<kind, id, wm, ...>>
SendsOf(tr, kind, widgetId) ==
    SelectSeq(tr, LAMBDA e : e[1] = kind /\ e[2] = widgetId)
\* the step leaves the persistent id and the three maps alone
StoreUnchanged ==
    UNCHANGED <<persistentWidgetId, capsByWidgetId, widgetMessagingByWidgetId,
                roomIdByWidgetId>>

\* C11: when the dispatcher callback runs once for a 'set_theme' action,
\* every widget that holds 'theme_update' and has a bound channel gets
\* exactly one sendThemeUpdate with the action's value, whatever its room,
\* and a widget without the capability gets none; an action of another kind
\* sends nothing and changes nothing.
C11_ThemeBroadcast ==
    [][ (lastOp'.op = "dispatch" /\ lastOp'.params[2] = 1)
        => LET payload == lastOp'.params[1]
           IN IF payload.action = "set_theme"
              THEN \A w \in Ids :
                     /\ ( /\ Truthy(widgetHasCapability(w, ThemeUpdateCap))
                          /\ getWidgetMessaging(w) # Undefined )
                        => SendsOf(trace', "sendThemeUpdate", w)
                             = << <<"sendThemeUpdate", w, getWidgetMessaging(w),
                                    payload.value>> >>
                     /\ ~Truthy(widgetHasCapability(w, ThemeUpdateCap))
                        => Sends(trace', "sendThemeUpdate", w) = 0
              ELSE trace' = <<>> /\ StoreUnchanged
      ]_vars

\* C12: whenever delWidgetMessaging, destroyPersistentWidget or stop()
\* removes a channel binding, stop() was called on that channel before the
\* binding went.
C12_ClosedBeforeRemoved ==
    [][ lastOp'.op \in {"delWidgetMessaging", "destroyPersistentWidget", "stop"}
        => \A w \in Ids :
             (getWidgetMessaging(w) # Undefined /\ getWidgetMessaging(w)' = Undefined)
             => /\ getWidgetMessaging(w) \in stopped'
                /\ \E i \in DOMAIN trace' :
                       /\ trace'[i][1] = "stop"
                       /\ trace'[i][2] = w
                       /\ trace'[i][3] = getWidgetMessaging(w)
      ]_vars

\* C13: a tracked widget with a matching capability set and no bound channel
\* does not make the forwarding fail: the delivery of a room-state event or
\* of a 'set_theme' action returns normally, and every matching widget with
\* a bound channel gets its send.
C13_MissingChannelIsolated ==
    [][ /\ lastOp'.op \in {"RoomState.events", "dispatch"} => thrown' = NoError
        /\ lastOp'.op = "RoomState.events"
           => \A w \in Ids :
                ( /\ getWidgetMessaging(w) # Undefined
                  /\ Truthy(widgetHasCapability(w, lastOp'.params[1].type))
                  /\ getRoomId(w) \in {Undefined, lastOp'.params[1].roomId} )
                => Sends(trace', "sendEvent", w) >= 1
        /\ (lastOp'.op = "dispatch" /\ lastOp'.params[1].action = "set_theme")
           => \A w \in Ids :
                ( /\ getWidgetMessaging(w) # Undefined
                  /\ Truthy(widgetHasCapability(w, ThemeUpdateCap)) )
                => Sends(trace', "sendThemeUpdate", w) >= 1
      ]_vars

\* C14: while the store is stopped (from stop() to the next start()) no
\* room-state event, no timeline event and no dispatched action reaches a
\* handler of the store, so nothing is sent to a widget.
C14_StoppedNoDelivery ==
    ~running
    => /\ lastOp.op \notin {"RoomState.events", "Room.timeline", "dispatch"}
       /\ \A i \in DOMAIN trace : trace[i][1] \notin {"sendEvent", "sendThemeUpdate"}

\* C15: however often start() was called, a room-state event and a
\* dispatched action are each handled once, and after stop() with a client
\* available no listener is left on the client.
C15_StartIdempotent ==
    /\ lastOp.op \in {"RoomState.events", "dispatch"} => lastOp.params[2] = 1
    /\ (lastOp.op = "stop" /\ lastOp.params = <<TRUE>>)
       => (roomStateListeners = 0 /\ roomTimelineListeners = 0)

\* C16: an event of type t is sent only to a widget whose capabilities, when
\* the delivery starts, contain t, and a theme update only to a widget whose
\* capabilities contain 'theme_update'.
C16_CapabilityEnforced ==
    [][ \A i \in DOMAIN trace' :
          /\ trace'[i][1] = "sendEvent"
             => Truthy(widgetHasCapability(trace'[i][2], trace'[i][4]))
          /\ trace'[i][1] = "sendThemeUpdate"
             => Truthy(widgetHasCapability(trace'[i][2], ThemeUpdateCap))
      ]_vars

C16_Witness ==
    \E w \in Ids, other \in Ids :
        /\ lastOp.op = "RoomState.events"
        /\ Sends(trace, "sendEvent", w) >= 1
        /\ other # w
        /\ widgetHasCapability(other, lastOp.params[1].type) = JsFalse
        /\ getWidgetMessaging(other) # Undefined
        /\ getRoomId(other) = Undefined
        /\ Sends(trace, "sendEvent", other) = 0

C18_OtherEventsChangeNothing ==
    [][ ( /\ lastOp'.op = "RoomState.events"
          /\ \/ lastOp'.params[1].type # WidgetsEventType
             \/ lastOp'.params[1].stateKey # persistentWidgetId )
        => /\ StoreUnchanged
           /\ stopped' = stopped
           /\ Emits(trace') = 0
           /\ \A i \in DOMAIN trace' : trace'[i][1] = "sendEvent"
      ]_vars

C18_Witness ==
    /\ lastOp.op = "RoomState.events"
    /\ lastOp.params[1].type = WidgetsEventType
    /\ lastOp.prePersistent \in Ids \ {lastOp.params[1].stateKey}
    /\ getPersistentWidgetId = lastOp.prePersistent
    /\ \E w \in Ids : Sends(trace, "sendEvent", w) >= 1

\* the widget id an operation is addressed to
Addressee ==
    IF lastOp'.op \in {"setWidgetPersistence", "setWidgetCapabilities",
                        "delWidgetCapabilities", "setWidgetMessaging",
                        "delWidgetMessaging", "setRoomId", "delRoomId"}
    THEN lastOp'.params[1]
    ELSE persistentWidgetId

====
